---------------------------- MODULE Spec2Model ----------------------------
(***************************************************************************)
(* kdbus: endpoint policy engine (endpoint.c) and connection metadata      *)
(* snapshot (metadata.c).                                                  *)
(*                                                                         *)
(* SpecPolicy drives the endpoint policy checks of endpoint.c over an      *)
(* endpoint, a bus-wide policy database and two connections.               *)
(***************************************************************************)
EXTENDS Integers, Sequences, FiniteSets, TLC

VARIABLES
    ep,             \* struct kdbus_ep: has_policy, policy_db
    bus_policy_db,  \* ep->bus->policy_db
    conns,          \* struct kdbus_conn per connection: cred, privileged, names_list
    call,           \* the policy check that has just returned: its arguments and ret
    meta,           \* struct kdbus_meta: data, size, allocated_size, attached, src_names
    current,        \* the calling task as the metadata producers read it
    config,         \* the CONFIG_* options the module was built with
    mcall,          \* the kdbus_meta_append call that has just returned
    nfail,          \* allocation failures injected so far
    node,           \* ep->node: lifecycle state and reference count
    conn_list,      \* ep->conn_list
    ep_lock,        \* ep->lock: the thread that holds it, or NULL
    lconn,          \* per connection: active flag, references, own disconnect
    rel,            \* the thread in kdbus_ep_release: position and conn
    owner,          \* the thread that created the endpoint
    acall,          \* the kdbus_ep_activate call that has just returned
    rwlock,         \* ep->policy_db.entries_rwlock: readers and writer
    conn_lock,      \* conn->lock per connection: the thread that holds it
    thr             \* the threads in policy operations: position, locks held

pvars == <<ep, bus_policy_db, conns, call>>
mvars == <<meta, current, config, mcall, nfail>>
lvars == <<node, conn_list, ep_lock, lconn, rel, owner, acall>>
kvars == <<rwlock, conn_lock, thr>>
vars == <<ep, bus_policy_db, conns, call, meta, current, config, mcall, nfail,
          node, conn_list, ep_lock, lconn, rel, owner, acall,
          rwlock, conn_lock, thr>>

-----------------------------------------------------------------------------
(* errno values as returned (negated) by the checks *)
EPERM == 1
ENOENT == 2

(* bound on the number of entries a policy database holds *)
MaxEntries == 1

Conn == {"A", "B"}
Names == {"org.foo", "org.bar"}

(* kmsg->msg.src_id: KDBUS_SRC_ID_KERNEL or the id of a sending connection *)
KDBUS_SRC_ID_KERNEL == "KDBUS_SRC_ID_KERNEL"
SrcIds == {KDBUS_SRC_ID_KERNEL, "A"}

(* kmsg->notify_type: the three name notifications and one other *)
NameChangeTypes == {"KDBUS_ITEM_NAME_ADD", "KDBUS_ITEM_NAME_REMOVE",
                    "KDBUS_ITEM_NAME_CHANGE"}
NotifyTypes == NameChangeTypes \cup {"KDBUS_ITEM_ID_ADD"}

(* the rules the model uploads into an endpoint's policy database *)
EpRules ==
    { [name |-> "org.foo", kind |-> "GROUP", id |-> 100,  access |-> "TALK"],
      [name |-> "org.foo", kind |-> "USER",  id |-> 1001, access |-> "SEE"],
      [name |-> "org.bar", kind |-> "WORLD", id |-> 0,    access |-> "SEE"],
      [name |-> "org.bar", kind |-> "GROUP", id |-> 200,  access |-> "TALK"],
      [name |-> "org.foo", kind |-> "WORLD", id |-> 0,    access |-> "OWN"],
      [name |-> "org.bar", kind |-> "USER",  id |-> 1000, access |-> "OWN"] }

(* the rules the model uploads into the bus-wide policy database *)
BusRules ==
    { [name |-> "org.foo", kind |-> "WORLD", id |-> 0,    access |-> "TALK"],
      [name |-> "org.bar", kind |-> "GROUP", id |-> 999,  access |-> "TALK"],
      [name |-> "org.foo", kind |-> "USER",  id |-> 1001, access |-> "OWN"],
      [name |-> "org.bar", kind |-> "WORLD", id |-> 0,    access |-> "SEE"] }

(* the credentials connections are created with *)
ConnCreds ==
    [ A |-> { [uid |-> 1000, gid |-> 100, fsuid |-> 1000] },
      B |-> { [uid |-> 1001, gid |-> g, fsuid |-> f] :
                  g \in {100, 200, 999}, f \in {1000, 1001} } ]

NoCall == [op |-> "none"]

-----------------------------------------------------------------------------
(* PolicyDatabase (policy.c): a set of entries, each bound to one name *)

kdbus_policy_entry_matches(e, cred) ==
    \/ e.kind = "USER" /\ e.id = cred.uid
    \/ e.kind = "GROUP" /\ e.id = cred.gid
    \/ e.kind = "WORLD"

kdbus_policy_check_access(db, cred, name, access) ==
    IF \E e \in db : /\ e.name = name
                     /\ e.access = access
                     /\ kdbus_policy_entry_matches(e, cred)
    THEN 0
    ELSE -EPERM

kdbus_policy_check_see_access_unlocked(db, cred, name) ==
    kdbus_policy_check_access(db, cred, name, "SEE")

kdbus_policy_check_own_access(db, cred, name) ==
    kdbus_policy_check_access(db, cred, name, "OWN")

kdbus_policy_check_talk_access(db, conn_src, conn_dst) ==
    IF \E i \in 1..Len(conn_dst.names_list) :
           kdbus_policy_check_access(db, conn_src.cred,
                                     conn_dst.names_list[i], "TALK") = 0
    THEN 0
    ELSE -EPERM

-----------------------------------------------------------------------------
(* endpoint.c: the policy engine *)

(* as kdbus_ep_policy_check_see_access_unlocked, without the has_policy test *)
see_access_unlocked_no_has_policy(e, conn, name) ==
    LET ret == kdbus_policy_check_see_access_unlocked(e.policy_db,
                                                      conn.cred, name)
    IN  IF ret = -EPERM THEN -ENOENT ELSE ret

(* as kdbus_ep_policy_check_see_access_unlocked, without the -EPERM remap *)
see_access_unlocked_no_remap(e, conn, name) ==
    IF ~e.has_policy
    THEN 0
    ELSE kdbus_policy_check_see_access_unlocked(e.policy_db, conn.cred, name)

kdbus_ep_policy_check_see_access_unlocked(e, conn, name) ==
    IF ~e.has_policy
    THEN 0
    ELSE LET ret == kdbus_policy_check_see_access_unlocked(e.policy_db,
                                                           conn.cred, name)
         IN  IF ret = -EPERM THEN -ENOENT ELSE ret

kdbus_ep_policy_check_see_access(e, conn, name) ==
    kdbus_ep_policy_check_see_access_unlocked(e, conn, name)

(* as kdbus_ep_policy_check_notification, with the switch's default case   *)
(* letting the notification through                                        *)
check_notification_default_allows(e, conn, kmsg) ==
    IF ~e.has_policy
    THEN 0
    ELSE IF kmsg.src_id # KDBUS_SRC_ID_KERNEL
    THEN 0
    ELSE IF kmsg.notify_type \in NameChangeTypes
    THEN kdbus_ep_policy_check_see_access(e, conn, kmsg.notify_name)
    ELSE 0

kdbus_ep_policy_check_notification(e, conn, kmsg) ==
    IF ~e.has_policy
    THEN 0
    ELSE IF kmsg.src_id # KDBUS_SRC_ID_KERNEL
    THEN 0
    ELSE IF kmsg.notify_type \in NameChangeTypes
    THEN kdbus_ep_policy_check_see_access(e, conn, kmsg.notify_name)
    ELSE -ENOENT

(* the loop of kdbus_ep_policy_check_src_names over conn_src->names_list,   *)
(* from entry i on, with ret the value left by the entries before           *)
RECURSIVE src_names_loop(_, _, _, _, _)
src_names_loop(e, names_list, conn_dst, i, ret) ==
    IF i > Len(names_list)
    THEN ret
    ELSE LET r == kdbus_ep_policy_check_see_access_unlocked(e, conn_dst,
                                                            names_list[i])
         IN  IF r = 0 THEN r
             ELSE src_names_loop(e, names_list, conn_dst, i + 1, r)

(* as kdbus_ep_policy_check_src_names, with ret initialised to 0 *)
check_src_names_ret_zero(e, conn_src, conn_dst) ==
    IF ~e.has_policy
    THEN 0
    ELSE src_names_loop(e, conn_src.names_list, conn_dst, 1, 0)

kdbus_ep_policy_check_src_names(e, conn_src, conn_dst) ==
    IF ~e.has_policy
    THEN 0
    ELSE src_names_loop(e, conn_src.names_list, conn_dst, 1, -ENOENT)

(* as kdbus_ep_policy_check_talk_access, with the implicit policies tested  *)
(* before the custom endpoint's policy                                     *)
check_talk_access_implicit_first(e, bus_db, conn_src, conn_dst) ==
    LET ret0 == kdbus_policy_check_talk_access(e.policy_db, conn_src, conn_dst)
        ret  == IF ret0 = -EPERM THEN -ENOENT ELSE ret0
    IN  IF conn_src.privileged
        THEN 0
        ELSE IF conn_src.cred.fsuid = conn_dst.cred.uid
        THEN 0
        ELSE IF e.has_policy /\ ret < 0
        THEN ret
        ELSE kdbus_policy_check_talk_access(bus_db, conn_src, conn_dst)

(* as kdbus_ep_policy_check_talk_access, without the -EPERM remap *)
check_talk_access_no_remap(e, bus_db, conn_src, conn_dst) ==
    LET ret == kdbus_policy_check_talk_access(e.policy_db, conn_src, conn_dst)
    IN  IF e.has_policy /\ ret < 0
        THEN ret
        ELSE IF conn_src.privileged
        THEN 0
        ELSE IF conn_src.cred.fsuid = conn_dst.cred.uid
        THEN 0
        ELSE kdbus_policy_check_talk_access(bus_db, conn_src, conn_dst)

(* as kdbus_ep_policy_check_talk_access, with a denial of the custom        *)
(* endpoint's policy falling through to the bus-wide default                *)
check_talk_access_fall_through(e, bus_db, conn_src, conn_dst) ==
    IF conn_src.privileged
    THEN 0
    ELSE IF conn_src.cred.fsuid = conn_dst.cred.uid
    THEN 0
    ELSE kdbus_policy_check_talk_access(bus_db, conn_src, conn_dst)

(* as kdbus_ep_policy_check_talk_access, with the bus-wide default's denial *)
(* remapped like the custom endpoint's                                      *)
check_talk_access_remap_default(e, bus_db, conn_src, conn_dst) ==
    LET ret0 == kdbus_policy_check_talk_access(e.policy_db, conn_src, conn_dst)
        ret  == IF ret0 = -EPERM THEN -ENOENT ELSE ret0
        def  == kdbus_policy_check_talk_access(bus_db, conn_src, conn_dst)
    IN  IF e.has_policy /\ ret < 0
        THEN ret
        ELSE IF conn_src.privileged
        THEN 0
        ELSE IF conn_src.cred.fsuid = conn_dst.cred.uid
        THEN 0
        ELSE IF def = -EPERM THEN -ENOENT ELSE def

kdbus_ep_policy_check_talk_access(e, bus_db, conn_src, conn_dst) ==
    LET ret0 == kdbus_policy_check_talk_access(e.policy_db, conn_src, conn_dst)
        ret  == IF ret0 = -EPERM THEN -ENOENT ELSE ret0
    IN  IF e.has_policy /\ ret < 0
        THEN ret
        ELSE IF conn_src.privileged
        THEN 0
        ELSE IF conn_src.cred.fsuid = conn_dst.cred.uid
        THEN 0
        ELSE kdbus_policy_check_talk_access(bus_db, conn_src, conn_dst)

(* as kdbus_ep_policy_check_own_access, with the privileged test first *)
check_own_access_privileged_first(e, bus_db, conn, name) ==
    LET ret == kdbus_policy_check_own_access(e.policy_db, conn.cred, name)
    IN  IF conn.privileged
        THEN 0
        ELSE IF e.has_policy /\ ret < 0
        THEN ret
        ELSE kdbus_policy_check_own_access(bus_db, conn.cred, name)

kdbus_ep_policy_check_own_access(e, bus_db, conn, name) ==
    LET ret == kdbus_policy_check_own_access(e.policy_db, conn.cred, name)
    IN  IF e.has_policy /\ ret < 0
        THEN ret
        ELSE IF conn.privileged
        THEN 0
        ELSE kdbus_policy_check_own_access(bus_db, conn.cred, name)

-----------------------------------------------------------------------------
(* metadata.c: the metadata snapshot and its item writer.                   *)
(*                                                                          *)
(* The buffer meta->data is kept as what its bytes are made of: the items   *)
(* written in [0, size), each with its offset, its declared size, its       *)
(* payload and the state of the padding after the payload; and dirty_to,    *)
(* the end of the bytes after size that kmalloc() left uninitialised and    *)
(* that hold something else than zero (0 when there are none). All other    *)
(* bytes of [size, allocated_size) are zero.                                *)

ENOMEM == 12
EINVAL == 22
EOPNOTSUPP == 95

KDBUS_ITEM_HEADER_SIZE == 16
MinAlloc == 256
PAGE_SIZE == 4096
SizeofTimestamp == 16
SizeofCreds == 40
SizeofCaps == 32
SizeofAudit == 16

(* bound on the allocation failures injected in one behaviour *)
MaxFailures == 1

NULL == "NULL"

(* a null struct kdbus_conn pointer *)
NullConn == [null |-> TRUE]

Categories == {"TIMESTAMP", "CREDS", "NAMES", "COMM", "EXE", "CMDLINE",
               "CAPS", "CGROUP", "AUDIT", "SECLABEL"}

KDBUS_ALIGN8(l) == ((l + 7) \div 8) * 8

KDBUS_ITEM_SIZE(s) == KDBUS_ALIGN8(s + KDBUS_ITEM_HEADER_SIZE)

RECURSIVE pow2_from(_, _)
pow2_from(p, n) == IF p >= n THEN p ELSE pow2_from(2 * p, n)

roundup_pow_of_two(n) == pow2_from(1, n)

strlen(str) == CASE str = "org.foo" -> 7
                 [] str = "org.bar" -> 7
                 [] OTHER -> 0

(* struct kdbus_meta after zero-initialisation; src_names is <<>> for a     *)
(* null pointer and <<offset>> for a pointer into data                     *)
kdbus_meta_init ==
    [data |-> NULL, items |-> <<>>, dirty_to |-> 0, size |-> 0,
     allocated_size |-> 0, attached |-> {},
     src_names |-> <<>>, src_names_len |-> 0]

(* The context a call of kdbus_meta_append threads through its producers:   *)
(* the snapshot, ret, the allocations attempted so far (n) and the offset   *)
(* of the item kdbus_meta_append_item returned last. The oracle o names the *)
(* allocation that fails (fail_at, 0 for none) and whether kmalloc() hands  *)
(* out memory that holds something else than zero (dirty).                  *)
meta_cx(m) == [meta |-> m, ret |-> 0, n |-> 0, off |-> 0, done |-> FALSE]

alloc_fails(cx, o) == cx.n + 1 = o.fail_at

(* the element of a singleton set: the({f(x) : x \in {e}}) is f(e), with e  *)
(* computed once                                                            *)
the(S) == CHOOSE x \in S : TRUE

(* kdbus_meta_append_item, the first allocation: kzalloc() of a zeroed      *)
(* buffer when meta->data is NULL                                           *)
meta_first_alloc(cx, extra_size, o) ==
    IF cx.meta.data # NULL
    THEN [cx EXCEPT !.ret = 0]
    ELSE IF alloc_fails(cx, o)
    THEN [cx EXCEPT !.n = @ + 1, !.ret = -ENOMEM]
    ELSE [cx EXCEPT !.n = @ + 1, !.ret = 0,
                    !.meta.data = "buffer",
                    !.meta.allocated_size =
                        roundup_pow_of_two(MinAlloc + KDBUS_ALIGN8(extra_size))]

(* memcpy(data, meta->data, n) into a buffer kmalloc() handed out: an item  *)
(* that lies within the first n bytes arrives as it was written, any other  *)
(* holds what the new buffer held                                           *)
memcpy(items, n) ==
    [i \in 1..Len(items) |->
        IF items[i].off + KDBUS_ALIGN8(items[i].size) <= n
        THEN items[i]
        ELSE [items[i] EXCEPT !.payload = <<"uninitialised">>]]

(* as meta_grow, without the memset() of the bytes from the old            *)
(* allocated_size on: all of the new buffer after size is what kmalloc()    *)
(* handed out                                                               *)
meta_grow_without_memset(cx, extra_size, o) ==
    IF cx.meta.size + KDBUS_ALIGN8(extra_size) <= cx.meta.allocated_size
    THEN cx
    ELSE IF alloc_fails(cx, o)
    THEN [cx EXCEPT !.n = @ + 1, !.ret = -ENOMEM]
    ELSE [cx EXCEPT !.n = @ + 1,
                    !.meta.items = memcpy(@, cx.meta.size),
                    !.meta.allocated_size =
                        roundup_pow_of_two(cx.meta.size
                                           + KDBUS_ALIGN8(extra_size)),
                    !.meta.dirty_to =
                        IF o.dirty
                        THEN roundup_pow_of_two(cx.meta.size
                                                + KDBUS_ALIGN8(extra_size))
                        ELSE 0]

(* as meta_grow, with the new buffer of the size required and not of the   *)
(* next power of two                                                        *)
meta_grow_to_required(cx, extra_size, o) ==
    IF cx.meta.size + KDBUS_ALIGN8(extra_size) <= cx.meta.allocated_size
    THEN cx
    ELSE IF alloc_fails(cx, o)
    THEN [cx EXCEPT !.n = @ + 1, !.ret = -ENOMEM]
    ELSE [cx EXCEPT !.n = @ + 1,
                    !.meta.items = memcpy(@, cx.meta.size),
                    !.meta.allocated_size =
                        cx.meta.size + KDBUS_ALIGN8(extra_size),
                    !.meta.dirty_to = IF o.dirty THEN cx.meta.allocated_size
                                                 ELSE 0]

(* as meta_grow, without the memcpy() of the old buffer into the new one *)
meta_grow_without_copy(cx, extra_size, o) ==
    IF cx.meta.size + KDBUS_ALIGN8(extra_size) <= cx.meta.allocated_size
    THEN cx
    ELSE IF alloc_fails(cx, o)
    THEN [cx EXCEPT !.n = @ + 1, !.ret = -ENOMEM]
    ELSE [cx EXCEPT !.n = @ + 1,
                    !.meta.items = memcpy(@, 0),
                    !.meta.allocated_size =
                        roundup_pow_of_two(cx.meta.size
                                           + KDBUS_ALIGN8(extra_size)),
                    !.meta.dirty_to = IF o.dirty THEN cx.meta.allocated_size
                                                 ELSE 0]

(* kdbus_meta_append_item, growing the buffer: kmalloc() of the next power  *)
(* of two, the items copied, the bytes from the old allocated_size on       *)
(* zeroed; the bytes from size to the old allocated_size are what kmalloc() *)
(* handed out                                                               *)
meta_grow(cx, extra_size, o) ==
    IF cx.meta.size + KDBUS_ALIGN8(extra_size) <= cx.meta.allocated_size
    THEN cx
    ELSE IF alloc_fails(cx, o)
    THEN [cx EXCEPT !.n = @ + 1, !.ret = -ENOMEM]
    ELSE [cx EXCEPT !.n = @ + 1,
                    !.meta.items = memcpy(@, cx.meta.size),
                    !.meta.allocated_size =
                        roundup_pow_of_two(cx.meta.size
                                           + KDBUS_ALIGN8(extra_size)),
                    !.meta.dirty_to = IF o.dirty THEN cx.meta.allocated_size
                                                 ELSE 0]

kdbus_meta_append_item(cx, extra_size, o) ==
    the({ IF c1.ret < 0
          THEN c1
          ELSE the({ IF c2.ret < 0
                     THEN c2
                     ELSE [c2 EXCEPT !.off = c2.meta.size,
                                     !.meta.size = @ + KDBUS_ALIGN8(extra_size),
                                     !.ret = 0]
                     : c2 \in {meta_grow(c1, extra_size, o)} })
          : c1 \in {meta_first_alloc(cx, extra_size, o)} })

(* the item written at cx.off: header, then len payload bytes; the bytes    *)
(* of the slot after them are left as the buffer had them                   *)
meta_item(cx, type, size, len, payload) ==
    LET end == cx.off + KDBUS_ITEM_HEADER_SIZE + len
    IN  [type |-> type, size |-> size, off |-> cx.off, len |-> len,
         payload |-> payload,
         pad |-> IF end = cx.meta.size THEN "none"
                 ELSE IF end < cx.meta.dirty_to THEN "uninitialised"
                 ELSE "zero"]

(* dirty_to is kept at 0 once the items have covered the uninitialised bytes *)
meta_write_item(cx, type, size, len, payload) ==
    [cx EXCEPT !.meta.items =
                   Append(@, meta_item(cx, type, size, len, payload)),
               !.meta.dirty_to = IF @ > cx.meta.size THEN @ ELSE 0]

kdbus_meta_append_timestamp(cx, o) ==
    the({ IF r.ret < 0
          THEN r
          ELSE meta_write_item(r, "KDBUS_ITEM_TIMESTAMP",
                               KDBUS_ITEM_SIZE(SizeofTimestamp), SizeofTimestamp,
                               <<"monotonic_ns", "realtime_ns">>)
          : r \in {kdbus_meta_append_item(cx, KDBUS_ITEM_SIZE(SizeofTimestamp), o)} })

(* as kdbus_meta_append_data, with item->size = len: the header left out of *)
(* the declared size                                                        *)
append_data_size_without_header(cx, type, buf, len, o) ==
    IF len = 0
    THEN [cx EXCEPT !.ret = 0]
    ELSE the({ IF r.ret < 0
               THEN r
               ELSE meta_write_item(r, type, len, len, buf)
               : r \in {kdbus_meta_append_item(cx, KDBUS_ITEM_SIZE(len), o)} })

kdbus_meta_append_data(cx, type, buf, len, o) ==
    IF len = 0
    THEN [cx EXCEPT !.ret = 0]
    ELSE the({ IF r.ret < 0
               THEN r
               ELSE meta_write_item(r, type, KDBUS_ITEM_HEADER_SIZE + len,
                                    len, buf)
               : r \in {kdbus_meta_append_item(cx, KDBUS_ITEM_SIZE(len), o)} })

kdbus_meta_append_str(cx, type, str, o) ==
    kdbus_meta_append_data(cx, type, <<str.chars>>, str.len + 1, o)

RECURSIVE names_strsize(_, _)
names_strsize(names_list, i) ==
    IF i > Len(names_list) THEN 0
    ELSE strlen(names_list[i]) + 1 + names_strsize(names_list, i + 1)

kdbus_meta_append_src_names(cx, conn, o) ==
    IF conn = NullConn
    THEN [cx EXCEPT !.ret = 0]
    ELSE LET strsize == names_strsize(conn.names_list, 1)
         IN  IF strsize = 0
             THEN [cx EXCEPT !.ret = 0]
             ELSE the({ IF r.ret < 0
                        THEN r
                        ELSE [meta_write_item(r, "KDBUS_ITEM_NAMES",
                                  KDBUS_ITEM_HEADER_SIZE + strsize, strsize,
                                  conn.names_list)
                                  EXCEPT !.meta.src_names =
                                             <<r.off + KDBUS_ITEM_HEADER_SIZE>>,
                                         !.meta.src_names_len = strsize]
                        : r \in {kdbus_meta_append_item(cx,
                                     KDBUS_ITEM_SIZE(strsize), o)} })

kdbus_meta_append_cred(cx, task, o) ==
    the({ IF r.ret < 0
          THEN r
          ELSE meta_write_item(r, "KDBUS_ITEM_CREDS",
                               KDBUS_ITEM_SIZE(SizeofCreds), SizeofCreds,
                               task.creds)
          : r \in {kdbus_meta_append_item(cx, KDBUS_ITEM_SIZE(SizeofCreds), o)} })

kdbus_meta_append_exe(cx, task, o) ==
    IF ~task.exe_path
    THEN [cx EXCEPT !.ret = 0]
    ELSE IF alloc_fails(cx, o)
    THEN [cx EXCEPT !.n = @ + 1, !.ret = -ENOMEM]
    ELSE IF task.d_path_err
    THEN [cx EXCEPT !.n = @ + 1, !.ret = 0]
    ELSE kdbus_meta_append_data([cx EXCEPT !.n = @ + 1, !.ret = 0],
                                "KDBUS_ITEM_EXE", <<"pathname">>,
                                task.exe_len, o)

Min(a, b) == IF a < b THEN a ELSE b

kdbus_meta_append_cmdline(cx, task, o) ==
    LET len == Min(task.arg_len, PAGE_SIZE)
        c1 == [cx EXCEPT !.n = @ + 1, !.ret = 0]
    IN  IF alloc_fails(cx, o)
        THEN [cx EXCEPT !.n = @ + 1, !.ret = -ENOMEM]
        ELSE IF ~task.arg_end
        THEN c1
        ELSE IF task.uncopied # 0
        THEN [c1 EXCEPT !.ret = Min(task.uncopied, len)]
        ELSE kdbus_meta_append_data(c1, "KDBUS_ITEM_CMDLINE", <<"args">>, len, o)

kdbus_meta_append_caps(cx, o) ==
    kdbus_meta_append_data(cx, "KDBUS_ITEM_CAPS", <<"cap">>, SizeofCaps, o)

kdbus_meta_append_cgroup(cx, task, o) ==
    LET c1 == [cx EXCEPT !.n = @ + 1, !.ret = task.cgroup_ret]
    IN  IF alloc_fails(cx, o)
        THEN [cx EXCEPT !.n = @ + 1, !.ret = -ENOMEM]
        ELSE IF task.cgroup_ret >= 0
        THEN kdbus_meta_append_str(c1, "KDBUS_ITEM_CGROUP", task.cgroup, o)
        ELSE c1

kdbus_meta_append_audit(cx, o) ==
    kdbus_meta_append_data(cx, "KDBUS_ITEM_AUDIT", <<"loginuid", "sessionid">>, SizeofAudit, o)

(* as kdbus_meta_append_seclabel, without `if (ret == -EOPNOTSUPP) return 0` *)
seclabel_not_supported_is_error(cx, task, o) ==
    IF task.secctx_ret < 0
    THEN [cx EXCEPT !.ret = task.secctx_ret]
    ELSE IF task.label_len > 0
    THEN kdbus_meta_append_data([cx EXCEPT !.ret = task.secctx_ret],
                                "KDBUS_ITEM_SECLABEL", <<"label">>,
                                task.label_len, o)
    ELSE [cx EXCEPT !.ret = task.secctx_ret]

kdbus_meta_append_seclabel(cx, task, o) ==
    IF task.secctx_ret = -EOPNOTSUPP
    THEN [cx EXCEPT !.ret = 0]
    ELSE IF task.secctx_ret < 0
    THEN [cx EXCEPT !.ret = task.secctx_ret]
    ELSE IF task.label_len > 0
    THEN kdbus_meta_append_data([cx EXCEPT !.ret = task.secctx_ret],
                                "KDBUS_ITEM_SECLABEL", <<"label">>,
                                task.label_len, o)
    ELSE [cx EXCEPT !.ret = task.secctx_ret]

(* the two items of KDBUS_ATTACH_COMM *)
kdbus_meta_append_comm(cx, task, o) ==
    the({ IF r.ret < 0
          THEN r
          ELSE kdbus_meta_append_str(r, "KDBUS_ITEM_PID_COMM", task.comm, o)
          : r \in {kdbus_meta_append_str(cx, "KDBUS_ITEM_TID_COMM",
                                         task.group_leader_comm, o)} })

(* as meta_append_category, without meta->attached |= KDBUS_ATTACH_* *)
meta_append_category_not_marked(cx, which, cat, r) ==
    IF cx.done
    THEN cx
    ELSE IF cat \in which /\ cat \notin cx.meta.attached
    THEN IF r.ret < 0
         THEN [r EXCEPT !.done = TRUE]
         ELSE r
    ELSE cx

(* one category of kdbus_meta_append, r being what the category's producer  *)
(* makes of cx: the producer runs when the category is requested and not    *)
(* attached; a negative ret ends the call, any other marks the category     *)
(* attached                                                                 *)
meta_append_category(cx, which, cat, r) ==
    IF cx.done
    THEN cx
    ELSE IF cat \in which /\ cat \notin cx.meta.attached
    THEN IF r.ret < 0
         THEN [r EXCEPT !.done = TRUE]
         ELSE [r EXCEPT !.meta.attached = @ \cup {cat}]
    ELSE cx

(* a category compiled in only under option opt *)
meta_append_optional(cx, which, cat, opt, cfg, r) ==
    IF opt \in cfg THEN meta_append_category(cx, which, cat, r) ELSE cx

(* the categories in the order of the code; each step takes the context the *)
(* step before it left                                                      *)
kdbus_meta_append(m, conn, which, task, cfg, o) ==
    LET s0 == {meta_cx(m)}
        s1 == {meta_append_category(c, which, "TIMESTAMP",
                   kdbus_meta_append_timestamp(c, o)) : c \in s0}
        s2 == {meta_append_category(c, which, "CREDS",
                   kdbus_meta_append_cred(c, task, o)) : c \in s1}
        s3 == {meta_append_category(c, which, "NAMES",
                   kdbus_meta_append_src_names(c, conn, o)) : c \in s2}
        s4 == {meta_append_category(c, which, "COMM",
                   kdbus_meta_append_comm(c, task, o)) : c \in s3}
        s5 == {meta_append_category(c, which, "EXE",
                   kdbus_meta_append_exe(c, task, o)) : c \in s4}
        s6 == {meta_append_category(c, which, "CMDLINE",
                   kdbus_meta_append_cmdline(c, task, o)) : c \in s5}
        s7 == {meta_append_category(c, which, "CAPS",
                   kdbus_meta_append_caps(c, o)) : c \in s6}
        s8 == {meta_append_optional(c, which, "CGROUP", "CONFIG_CGROUPS", cfg,
                   kdbus_meta_append_cgroup(c, task, o)) : c \in s7}
        s9 == {meta_append_optional(c, which, "AUDIT", "CONFIG_AUDITSYSCALL", cfg,
                   kdbus_meta_append_audit(c, o)) : c \in s8}
        s10 == {meta_append_optional(c, which, "SECLABEL", "CONFIG_SECURITY", cfg,
                   kdbus_meta_append_seclabel(c, task, o)) : c \in s9}
    IN  IF conn = NullConn
        THEN meta_cx(m)
        ELSE IF which \subseteq m.attached
        THEN meta_cx(m)
        ELSE the(s10)

-----------------------------------------------------------------------------
(* State after construction: kdbus_ep_new(bus, name, ..., is_custom) with   *)
(* empty policy databases, and two connections that own no name yet.        *)

kdbus_ep_new(is_custom) ==
    [has_policy |-> is_custom, policy_db |-> {}]

kdbus_conn_new(cred, privileged) ==
    [cred |-> cred, privileged |-> privileged, names_list |-> <<>>]

InitPolicy ==
    /\ \E is_custom \in BOOLEAN : ep = kdbus_ep_new(is_custom)
    /\ bus_policy_db = {}
    /\ \E ca \in ConnCreds.A, cb \in ConnCreds.B, pb \in BOOLEAN :
           conns = [c \in Conn |-> IF c = "A" THEN kdbus_conn_new(ca, FALSE)
                                               ELSE kdbus_conn_new(cb, pb)]
    /\ call = NoCall

(* the tasks a snapshot is taken of, with the names connection A owns and  *)
(* the options of the build                                                *)
AllConfig == {"CONFIG_CGROUPS", "CONFIG_AUDITSYSCALL", "CONFIG_SECURITY"}

task_struct(exe_path, d_path_err, exe_len, arg_end, arg_len, uncopied, cgroup_ret, secctx_ret, label_len) ==
    [creds |-> <<"uid", "gid", "pid", "tid", "starttime">>,
     group_leader_comm |-> [chars |-> "kdbus-test", len |-> 10],
     comm |-> [chars |-> "worker", len |-> 6],
     exe_path |-> exe_path, d_path_err |-> d_path_err, exe_len |-> exe_len,
     arg_end |-> arg_end, arg_len |-> arg_len, uncopied |-> uncopied,
     cgroup_ret |-> cgroup_ret,
     cgroup |-> [chars |-> "/user.slice", len |-> 11],
     secctx_ret |-> secctx_ret, label_len |-> label_len]

Senders ==
    { \* an ordinary task
      [names |-> <<"org.foo">>, config |-> AllConfig,
       task |-> task_struct(TRUE, FALSE, 14, TRUE, 21, 0, 0, 0, 20)],
      \* no names, no executable, no arguments, no security module
      [names |-> <<>>, config |-> AllConfig,
       task |-> task_struct(FALSE, FALSE, 0, FALSE, 0, 0, 0, -EOPNOTSUPP, 0)],
      \* a long executable path and more than a page of arguments
      [names |-> <<"org.foo", "org.bar">>, config |-> AllConfig,
       task |-> task_struct(TRUE, FALSE, 300, TRUE, 5000, 0, 0, 0, 20)],
      \* a long path and long arguments: the buffer grows twice
      [names |-> <<"org.bar", "org.foo">>, config |-> AllConfig,
       task |-> task_struct(TRUE, FALSE, 300, TRUE, 400, 0, 0, 0, 20)],
      \* the arguments cannot be read in full, the security module fails
      [names |-> <<"org.foo">>, config |-> AllConfig,
       task |-> task_struct(TRUE, FALSE, 14, TRUE, 21, 4, 0, -EINVAL, 0)],
      \* d_path() and task_cgroup_path() fail, the label is empty
      [names |-> <<"org.bar">>, config |-> AllConfig,
       task |-> task_struct(TRUE, TRUE, 0, TRUE, 0, 0, -EINVAL, 0, 0)],
      \* a build without cgroups, audit and security
      [names |-> <<"org.foo">>, config |-> {},
       task |-> task_struct(TRUE, FALSE, 300, TRUE, 21, 0, 0, 0, 20)],
      \* arguments that leave room in the first buffer for one more item
      \* after the executable, the arguments and the timestamp
      [names |-> <<"org.foo">>, config |-> AllConfig,
       task |-> task_struct(TRUE, FALSE, 14, TRUE, 400, 0, 0, 0, 20)] }

(* the endpoint as kdbus_ep_new leaves it before its node is linked: one    *)
(* reference, no connection, nobody in kdbus_ep_release                     *)
ConnIdle == [active |-> FALSE, refs |-> 0, pc |-> "idle"]

LifeIdle ==
    /\ node = [state |-> "Created", refs |-> 1, bug |-> FALSE]
    /\ conn_list = <<>>
    /\ ep_lock = NULL
    /\ lconn = [c \in Conn |-> ConnIdle]
    /\ rel = [pc |-> "idle", conn |-> NULL]
    /\ owner = [pc |-> "idle"]
    /\ acall = NoCall

(* the threads that run policy operations, none of them in one *)
Threads == {"t1", "t2", "t3"}

ThreadIdle == [pc |-> "idle", op |-> [kind |-> "none"], todo |-> <<>>,
               undo |-> <<>>, held |-> <<>>, ret |-> 0]

LockIdle ==
    /\ rwlock = [readers |-> {}, writer |-> NULL, waiting |-> {}]
    /\ conn_lock = [c \in Conn |-> NULL]
    /\ thr = [t \in Threads |-> ThreadIdle]

(* no snapshot is being built *)
MetaIdle ==
    /\ meta = kdbus_meta_init
    /\ current = task_struct(FALSE, FALSE, 0, FALSE, 0, 0, 0, 0, 0)
    /\ config = {}
    /\ mcall = NoCall
    /\ nfail = 0

Init == InitPolicy /\ MetaIdle /\ LifeIdle /\ LockIdle

(* a zeroed snapshot, and a sender: connection A with the names it owns    *)
(* and the task behind it                                                  *)
InitMeta ==
    /\ ep = kdbus_ep_new(FALSE)
    /\ bus_policy_db = {}
    /\ call = NoCall
    /\ meta = kdbus_meta_init
    /\ \E s \in Senders :
           /\ conns = [c \in Conn |->
                          [kdbus_conn_new(CHOOSE cr \in ConnCreds[c] : TRUE, FALSE)
                               EXCEPT !.names_list = IF c = "A" THEN s.names
                                                                 ELSE <<>>]]
           /\ current = s.task
           /\ config = s.config
    /\ mcall = NoCall
    /\ nfail = 0
    /\ LifeIdle
    /\ LockIdle

-----------------------------------------------------------------------------
(* Operations that change the policy state *)

kdbus_ep_policy_set(rule) ==
    /\ call = NoCall
    /\ rule \notin ep.policy_db
    /\ Cardinality(ep.policy_db) < MaxEntries
    /\ ep' = [ep EXCEPT !.policy_db = @ \cup {rule}]
    /\ UNCHANGED <<bus_policy_db, conns, call>>
    /\ UNCHANGED <<mvars, lvars, kvars>>

kdbus_bus_policy_set(rule) ==
    /\ call = NoCall
    /\ rule \notin bus_policy_db
    /\ Cardinality(bus_policy_db) < MaxEntries
    /\ bus_policy_db' = bus_policy_db \cup {rule}
    /\ UNCHANGED <<ep, conns, call>>
    /\ UNCHANGED <<mvars, lvars, kvars>>

NameOwned(n) == \E c \in Conn : \E i \in 1..Len(conns[c].names_list) :
                    conns[c].names_list[i] = n

kdbus_name_acquire(c, n) ==
    /\ call = NoCall
    /\ ~NameOwned(n)
    /\ conns' = [conns EXCEPT ![c].names_list = Append(@, n)]
    /\ UNCHANGED <<ep, bus_policy_db, call>>
    /\ UNCHANGED <<mvars, lvars, kvars>>

-----------------------------------------------------------------------------
(* The policy checks: each leaves its arguments and its return value in     *)
(* call; Return hands the value to the caller.                              *)

CheckSeeAccess(c, n) ==
    /\ call = NoCall
    /\ call' = [op |-> "see", conn |-> c, name |-> n,
                ret |-> kdbus_ep_policy_check_see_access(ep, conns[c], n)]
    /\ UNCHANGED <<ep, bus_policy_db, conns>>
    /\ UNCHANGED <<mvars, lvars, kvars>>

CheckNotification(c, kmsg) ==
    /\ call = NoCall
    /\ call' = [op |-> "notification", conn |-> c, kmsg |-> kmsg,
                ret |-> kdbus_ep_policy_check_notification(ep, conns[c], kmsg)]
    /\ UNCHANGED <<ep, bus_policy_db, conns>>
    /\ UNCHANGED <<mvars, lvars, kvars>>

CheckSrcNames(s, d) ==
    /\ call = NoCall
    /\ call' = [op |-> "src_names", src |-> s, dst |-> d,
                ret |-> kdbus_ep_policy_check_src_names(ep, conns[s], conns[d])]
    /\ UNCHANGED <<ep, bus_policy_db, conns>>
    /\ UNCHANGED <<mvars, lvars, kvars>>

CheckTalkAccess(s, d) ==
    /\ call = NoCall
    /\ call' = [op |-> "talk", src |-> s, dst |-> d,
                ret |-> kdbus_ep_policy_check_talk_access(ep, bus_policy_db,
                                                          conns[s], conns[d])]
    /\ UNCHANGED <<ep, bus_policy_db, conns>>
    /\ UNCHANGED <<mvars, lvars, kvars>>

CheckOwnAccess(c, n) ==
    /\ call = NoCall
    /\ call' = [op |-> "own", conn |-> c, name |-> n,
                ret |-> kdbus_ep_policy_check_own_access(ep, bus_policy_db,
                                                         conns[c], n)]
    /\ UNCHANGED <<ep, bus_policy_db, conns>>
    /\ UNCHANGED <<mvars, lvars, kvars>>

Return ==
    /\ call # NoCall
    /\ call' = NoCall
    /\ UNCHANGED <<ep, bus_policy_db, conns>>
    /\ UNCHANGED <<mvars, lvars, kvars>>

Kmsgs == [src_id : SrcIds, notify_type : NotifyTypes, notify_name : Names]

NextPolicy ==
    \/ \E r \in EpRules : kdbus_ep_policy_set(r)
    \/ \E r \in BusRules : kdbus_bus_policy_set(r)
    \/ \E c \in Conn, n \in Names : kdbus_name_acquire(c, n)
    \/ \E c \in Conn, n \in Names : CheckSeeAccess(c, n)
    \/ \E c \in Conn, k \in Kmsgs : CheckNotification(c, k)
    \/ \E s \in Conn, d \in Conn : CheckSrcNames(s, d)
    \/ \E s \in Conn, d \in Conn : CheckTalkAccess(s, d)
    \/ \E c \in Conn, n \in Names : CheckOwnAccess(c, n)
    \/ Return

SpecPolicy == Init /\ [][NextPolicy]_vars

-----------------------------------------------------------------------------
(* kdbus_meta_append(meta, conn, which) as one step. mcall keeps the call's *)
(* arguments and ret, the snapshot as it was before the call (pre), and     *)
(* whether the call before it had the same arguments (rep) and what that    *)
(* one returned (prev_ret).                                                 *)

Masks == { {"CREDS", "NAMES"}, {"TIMESTAMP", "COMM"}, {"EXE", "CMDLINE"},
           {"CGROUP", "AUDIT", "SECLABEL"}, Categories }

NoFailure == [fail_at |-> 0, dirty |-> FALSE]

conn_of(c) == IF c = NULL THEN NullConn ELSE conns[c]

(* the oracles that make a difference to the call, r being what the call   *)
(* makes of the snapshot when no allocation fails: one oracle per           *)
(* allocation it attempts, and what kmalloc() hands out when the buffer     *)
(* grows                                                                    *)
Oracles(r) ==
    [fail_at : 0..(IF nfail < MaxFailures THEN r.n ELSE 0),
     dirty : IF /\ meta.allocated_size > 0
                /\ r.meta.allocated_size > meta.allocated_size
             THEN BOOLEAN ELSE {FALSE}]

MetaAppend(c, which, o) ==
    \E r \in {kdbus_meta_append(meta, conn_of(c), which, current, config, o)} :
        /\ meta' = r.meta
        /\ nfail' = IF o.fail_at # 0 THEN nfail + 1 ELSE nfail
        /\ mcall' = [op |-> "append", conn |-> c, which |-> which,
                     ret |-> r.ret, pre |-> meta,
                     rep |-> /\ mcall # NoCall
                             /\ mcall.conn = c /\ mcall.which = which,
                     prev_ret |-> IF mcall # NoCall THEN mcall.ret ELSE 0]
        /\ UNCHANGED <<current, config>>
        /\ UNCHANGED <<pvars, lvars, kvars>>

NextMeta ==
    \E c \in {NULL, "A"}, which \in Masks :
        \E r \in {kdbus_meta_append(meta, conn_of(c), which, current, config,
                                    NoFailure)} :
            \E o \in Oracles(r) : MetaAppend(c, which, o)

SpecMeta == InitMeta /\ [][NextMeta]_vars


-----------------------------------------------------------------------------
(* Properties of the policy checks, read in the state a check returns in:   *)
(* call holds the check's arguments, the databases and connections are the  *)
(* ones the check ran on.                                                   *)

IsCall(op) == call.op = op

(* the custom endpoint's own policy denies call.src -> call.dst *)
EpPolicyDeniesTalk ==
    /\ ep.has_policy
    /\ kdbus_policy_check_talk_access(ep.policy_db, conns[call.src],
                                      conns[call.dst]) < 0

BusDefaultTalk ==
    kdbus_policy_check_talk_access(bus_policy_db, conns[call.src],
                                   conns[call.dst])

(* C1, as stated: when the custom endpoint's policy denies src -> dst but   *)
(* src is privileged, check_talk_access still allows (returns 0).           *)
C1_PrivilegedOverridesCustomDeny ==
    (IsCall("talk") /\ EpPolicyDeniesTalk /\ conns[call.src].privileged)
        => call.ret = 0

(* C1, amended: when the custom endpoint's policy denies src -> dst, the    *)
(* check returns -ENOENT also for a privileged src; the privileged shortcut *)
(* is reached only on a default endpoint or after the custom policy allowed.*)
C1_CustomDenyIsTerminal ==
    /\ (IsCall("talk") /\ EpPolicyDeniesTalk /\ conns[call.src].privileged)
           => call.ret = -ENOENT
    /\ (IsCall("talk") /\ ~EpPolicyDeniesTalk /\ conns[call.src].privileged)
           => call.ret = 0

C1_Witness ==
    /\ IsCall("talk") /\ EpPolicyDeniesTalk
    /\ conns[call.src].privileged
    /\ call.ret = -ENOENT

(* C2: custom endpoint, its policy denies src -> dst, src not privileged,   *)
(* src's fsuid differs from dst's uid: the result is -ENOENT, never -EPERM, *)
(* and it is the same for every content of the bus-wide default database.   *)
C2_CustomDenyNotFound ==
    (/\ IsCall("talk") /\ EpPolicyDeniesTalk
     /\ ~conns[call.src].privileged
     /\ conns[call.src].cred.fsuid # conns[call.dst].cred.uid)
        => /\ call.ret = -ENOENT
           /\ call.ret # -EPERM
           /\ \A db \in SUBSET BusRules :
                  kdbus_ep_policy_check_talk_access(ep, db, conns[call.src],
                                                    conns[call.dst]) = call.ret

(* the bus-wide default would have allowed what the custom policy denied *)
C2_Witness ==
    /\ IsCall("talk") /\ EpPolicyDeniesTalk
    /\ ~conns[call.src].privileged
    /\ conns[call.src].cred.fsuid # conns[call.dst].cred.uid
    /\ BusDefaultTalk = 0
    /\ call.ret = -ENOENT

(* C3: on a default endpoint, or a custom one whose policy allowed: a       *)
(* privileged src is allowed, a src whose fsuid is dst's uid is allowed,    *)
(* and otherwise the result is the bus-wide default's talk result as it is. *)
C3_ImplicitThenDefault ==
    (IsCall("talk") /\ ~EpPolicyDeniesTalk)
        => /\ conns[call.src].privileged => call.ret = 0
           /\ conns[call.src].cred.fsuid = conns[call.dst].cred.uid
                  => call.ret = 0
           /\ (/\ ~conns[call.src].privileged
               /\ conns[call.src].cred.fsuid # conns[call.dst].cred.uid)
                  => call.ret = BusDefaultTalk

(* a custom endpoint whose policy allowed, and the default's denial -EPERM *)
C3_Witness ==
    /\ IsCall("talk") /\ ep.has_policy /\ ~EpPolicyDeniesTalk
    /\ ~conns[call.src].privileged
    /\ conns[call.src].cred.fsuid # conns[call.dst].cred.uid
    /\ call.ret = -EPERM

(* C4: on a default endpoint check_see_access returns 0 for every           *)
(* connection and name, whatever the two policy databases hold.             *)
C4_DefaultEndpointSeesAll ==
    (IsCall("see") /\ ~ep.has_policy) => call.ret = 0

(* both databases hold entries, and none lets the connection see the name *)
C4_Witness ==
    /\ IsCall("see") /\ ~ep.has_policy
    /\ ep.policy_db # {} /\ bus_policy_db # {}
    /\ kdbus_policy_check_see_access_unlocked(ep.policy_db,
                                              conns[call.conn].cred,
                                              call.name) < 0
    /\ call.ret = 0

HasEntries(db, name) == \E e \in db : e.name = name

(* C5: on a custom endpoint check_see_access never returns -EPERM; for a    *)
(* name with entries none of which match the connection it returns what it  *)
(* returns for a name with no entries at all, -ENOENT.                      *)
C5_SeeDenialIsNotFound ==
    (IsCall("see") /\ ep.has_policy)
        => /\ call.ret \in {0, -ENOENT}
           /\ call.ret # 0 =>
                  \A n \in Names :
                      ~HasEntries(ep.policy_db, n) =>
                          kdbus_ep_policy_check_see_access(
                              ep, conns[call.conn], n) = call.ret

(* the name has entries, none matches; another name has none at all *)
C5_Witness ==
    /\ IsCall("see") /\ ep.has_policy
    /\ HasEntries(ep.policy_db, call.name)
    /\ \E n \in Names : ~HasEntries(ep.policy_db, n)
    /\ call.ret = -ENOENT

(* C6: on a custom endpoint check_src_names allows iff dst passes the SEE   *)
(* check for at least one name src owns, so it denies for a src that owns   *)
(* no name; on a default endpoint it always allows.                         *)
C6_SrcNames ==
    IsCall("src_names")
        => LET names_list == conns[call.src].names_list
               sees == \E i \in 1..Len(names_list) :
                           kdbus_ep_policy_check_see_access(
                               ep, conns[call.dst], names_list[i]) = 0
           IN  /\ ep.has_policy => (call.ret = 0 <=> sees)
               /\ (ep.has_policy /\ names_list = <<>>) => call.ret < 0
               /\ ~ep.has_policy => call.ret = 0

C6_Witness ==
    /\ IsCall("src_names") /\ ep.has_policy
    /\ conns[call.src].names_list = <<>>
    /\ call.ret = -ENOENT

(* one of two owned names is visible, and it is not the first *)
C6_WitnessSecondName ==
    /\ IsCall("src_names") /\ ep.has_policy
    /\ Len(conns[call.src].names_list) = 2
    /\ kdbus_ep_policy_check_see_access(
           ep, conns[call.dst], conns[call.src].names_list[1]) < 0
    /\ call.ret = 0

(* C7: a kernel notification that is no name add/remove/change is denied on *)
(* a custom endpoint and allowed on a default one; a name add/remove/change *)
(* gets the result of check_see_access for its name on either kind of       *)
(* endpoint; a message that does not come from the kernel is allowed.       *)
C7_Notification ==
    IsCall("notification")
        => LET kmsg == call.kmsg
               kernel == kmsg.src_id = KDBUS_SRC_ID_KERNEL
               name_change == kmsg.notify_type \in NameChangeTypes
           IN  /\ (kernel /\ ~name_change /\ ep.has_policy) => call.ret < 0
               /\ (kernel /\ ~name_change /\ ~ep.has_policy) => call.ret = 0
               /\ (kernel /\ name_change)
                      => call.ret = kdbus_ep_policy_check_see_access(
                                        ep, conns[call.conn], kmsg.notify_name)
               /\ ~kernel => call.ret = 0

(* suppressed although the connection may see the name it is about *)
C7_Witness ==
    /\ IsCall("notification") /\ ep.has_policy
    /\ call.kmsg.src_id = KDBUS_SRC_ID_KERNEL
    /\ call.kmsg.notify_type \notin NameChangeTypes
    /\ kdbus_ep_policy_check_see_access(ep, conns[call.conn],
                                        call.kmsg.notify_name) = 0
    /\ call.ret = -ENOENT

(* C8: check_own_access returns the endpoint policy's denial as it is       *)
(* (-EPERM), without consulting the privileged flag or the bus default;     *)
(* otherwise a privileged connection is allowed; otherwise the result is    *)
(* the bus-wide default's own-check result.                                 *)
C8_OwnAccess ==
    IsCall("own")
        => LET conn == conns[call.conn]
               ep_ret == kdbus_policy_check_own_access(ep.policy_db,
                                                       conn.cred, call.name)
               denied == ep.has_policy /\ ep_ret < 0
           IN  /\ denied => (call.ret = ep_ret /\ call.ret = -EPERM)
               /\ (~denied /\ conn.privileged) => call.ret = 0
               /\ (~denied /\ ~conn.privileged)
                      => call.ret = kdbus_policy_check_own_access(
                                        bus_policy_db, conn.cred, call.name)

(* denied although privileged and allowed by the bus default *)
C8_Witness ==
    /\ IsCall("own") /\ ep.has_policy
    /\ conns[call.conn].privileged
    /\ kdbus_policy_check_own_access(bus_policy_db, conns[call.conn].cred,
                                     call.name) = 0
    /\ call.ret = -EPERM

(* the scenario of C9 with B's gid g: talk B -> A has returned *)
C9_Scenario(g) ==
    /\ IsCall("talk") /\ call.src = "B" /\ call.dst = "A"
    /\ ep.has_policy
    /\ ep.policy_db = {[name |-> "org.foo", kind |-> "GROUP", id |-> 100,
                        access |-> "TALK"]}
    /\ conns["A"].cred.gid = 100
    /\ \E i \in 1..Len(conns["A"].names_list) :
           conns["A"].names_list[i] = "org.foo"
    /\ conns["B"].cred.gid = g
    /\ ~conns["B"].privileged
    /\ conns["B"].cred.fsuid # conns["A"].cred.uid

(* C9, as stated: in the scenario, with B's gid 200 the check allows, and   *)
(* with B's gid 999 it denies as -ENOENT.                                   *)
C9_ScenarioAsStated ==
    /\ C9_Scenario(200) => call.ret = 0
    /\ C9_Scenario(999) => call.ret = -ENOENT

(* C9, amended: in the scenario the GROUP 100 entry does not match B's gid  *)
(* 200, so the check denies as -ENOENT, as it does with B's gid 999; with   *)
(* B's gid 100 the endpoint policy allows and the result is the bus-wide    *)
(* default's.                                                               *)
C9_ScenarioAmended ==
    /\ C9_Scenario(200) => call.ret = -ENOENT
    /\ C9_Scenario(999) => call.ret = -ENOENT
    /\ C9_Scenario(100) => call.ret = BusDefaultTalk

C9_Witness ==
    C9_Scenario(200) /\ call.ret = -ENOENT

-----------------------------------------------------------------------------
(* Properties of kdbus_meta_append, read in the state a call returns in:    *)
(* mcall.pre is the snapshot the call started from, meta the one it left.   *)

IsAppend == mcall.op = "append"

-----------------------------------------------------------------------------
(* the items of type t in snapshot m *)
ItemsOfType(m, t) == {i \in 1..Len(m.items) : m.items[i].type = t}

(* C11: kdbus_meta_append with mask {CREDS, NAMES} on a zeroed snapshot,    *)
(* for a connection that owns no name, leaves a CREDS item, no NAMES item,  *)
(* and the NAMES bit unset in the attached mask.                            *)
C11_NoNamesBitUnset ==
    (/\ IsAppend /\ mcall.conn = "A" /\ mcall.which = {"CREDS", "NAMES"}
     /\ conns["A"].names_list = <<>>
     /\ mcall.pre = kdbus_meta_init /\ mcall.ret = 0)
        => /\ ItemsOfType(meta, "KDBUS_ITEM_CREDS") # {}
           /\ ItemsOfType(meta, "KDBUS_ITEM_NAMES") = {}
           /\ "NAMES" \notin meta.attached

-----------------------------------------------------------------------------
(* The reader of a snapshot: KDBUS_ITEM_FOREACH starts at offset 0 and      *)
(* KDBUS_ITEM_NEXT adds the aligned declared size of the item under the     *)
(* cursor, while the cursor is below the logical size. at is the index of   *)
(* the item that starts at the cursor, 0 when the cursor is inside an item. *)
ItemAt(m, cursor) ==
    IF \E i \in 1..Len(m.items) : m.items[i].off = cursor
    THEN CHOOSE i \in 1..Len(m.items) : m.items[i].off = cursor
    ELSE 0

KDBUS_ITEM_NEXT(m, cursor) == cursor + KDBUS_ALIGN8(m.items[ItemAt(m, cursor)].size)

RECURSIVE KDBUS_ITEM_FOREACH(_, _, _)
KDBUS_ITEM_FOREACH(m, cursor, visited) ==
    IF cursor >= m.size
    THEN [visited |-> visited, cursor |-> cursor, lost |-> FALSE]
    ELSE IF ItemAt(m, cursor) = 0
    THEN [visited |-> visited, cursor |-> cursor, lost |-> TRUE]
    ELSE KDBUS_ITEM_FOREACH(m, KDBUS_ITEM_NEXT(m, cursor),
                            Append(visited, ItemAt(m, cursor)))

(* the offset of the item after item i, the logical size for the last *)
NextOff(m, i) == IF i < Len(m.items) THEN m.items[i + 1].off ELSE m.size

(* C12: every item starts at a multiple of 8; the distance to the next item *)
(* is a multiple of 8 and at least the declared size; the reader visits     *)
(* exactly the appended items, in order, and stops at the logical size.     *)
C12_AlignedAndWalkable ==
    /\ \A i \in 1..Len(meta.items) :
           /\ meta.items[i].off % 8 = 0
           /\ (NextOff(meta, i) - meta.items[i].off) % 8 = 0
           /\ NextOff(meta, i) - meta.items[i].off >= meta.items[i].size
    /\ LET w == KDBUS_ITEM_FOREACH(meta, 0, <<>>)
       IN  /\ ~w.lost
           /\ w.visited = [i \in 1..Len(meta.items) |-> i]
           /\ w.cursor = meta.size

(* a snapshot of several items, one of them with padding after a payload   *)
(* that is no multiple of 8, built by more than one call, one of which      *)
(* made the buffer grow                                                     *)
C12_Witness ==
    /\ Len(meta.items) >= 4
    /\ \E i \in 1..Len(meta.items) : meta.items[i].size % 8 # 0
    /\ meta.allocated_size > 512
    /\ IsAppend /\ mcall.pre.items # <<>>
    /\ KDBUS_ITEM_FOREACH(meta, 0, <<>>).cursor = meta.size

-----------------------------------------------------------------------------
(* the categories in the order kdbus_meta_append goes through them, the     *)
(* option each is compiled under, and the item types each one writes        *)
CategoryOrder == <<"TIMESTAMP", "CREDS", "NAMES", "COMM", "EXE", "CMDLINE",
                   "CAPS", "CGROUP", "AUDIT", "SECLABEL">>

CompiledIn(cat, cfg) ==
    CASE cat = "CGROUP" -> "CONFIG_CGROUPS" \in cfg
      [] cat = "AUDIT" -> "CONFIG_AUDITSYSCALL" \in cfg
      [] cat = "SECLABEL" -> "CONFIG_SECURITY" \in cfg
      [] OTHER -> TRUE

CategoryItems(cat) ==
    CASE cat = "TIMESTAMP" -> {"KDBUS_ITEM_TIMESTAMP"}
      [] cat = "CREDS" -> {"KDBUS_ITEM_CREDS"}
      [] cat = "NAMES" -> {"KDBUS_ITEM_NAMES"}
      [] cat = "COMM" -> {"KDBUS_ITEM_TID_COMM", "KDBUS_ITEM_PID_COMM"}
      [] cat = "EXE" -> {"KDBUS_ITEM_EXE"}
      [] cat = "CMDLINE" -> {"KDBUS_ITEM_CMDLINE"}
      [] cat = "CAPS" -> {"KDBUS_ITEM_CAPS"}
      [] cat = "CGROUP" -> {"KDBUS_ITEM_CGROUP"}
      [] cat = "AUDIT" -> {"KDBUS_ITEM_AUDIT"}
      [] cat = "SECLABEL" -> {"KDBUS_ITEM_SECLABEL"}

(* the items the last call added: pre.items is a prefix of meta.items *)
ItemsKept == /\ Len(mcall.pre.items) <= Len(meta.items)
             /\ SubSeq(meta.items, 1, Len(mcall.pre.items)) = mcall.pre.items

AddedItems == {i \in 1..Len(meta.items) : i > Len(mcall.pre.items)}

(* the categories the last call had to produce, as positions of the order *)
ToProduce == {k \in 1..Len(CategoryOrder) :
                 /\ CategoryOrder[k] \in mcall.which
                 /\ CategoryOrder[k] \notin mcall.pre.attached
                 /\ CompiledIn(CategoryOrder[k], config)}

(* the call failed in category k: the ones before k are attached, k and    *)
(* the ones after it are not, and every item added belongs to a category   *)
(* before k, so that the failing producer left the logical size as the     *)
(* completed ones made it                                                  *)
FailedIn(k) ==
    /\ k \in ToProduce
    /\ meta.attached = mcall.pre.attached
                           \cup {CategoryOrder[j] : j \in {t \in ToProduce : t < k}}
    /\ \A i \in AddedItems :
           \E j \in ToProduce : j < k /\ meta.items[i].type \in CategoryItems(CategoryOrder[j])
    /\ meta.size = IF AddedItems = {}
                   THEN mcall.pre.size
                   ELSE meta.items[Len(meta.items)].off
                            + KDBUS_ALIGN8(meta.items[Len(meta.items)].size)

(* C13: a call in which a producer fails returns the error and stops: the   *)
(* categories completed before keep bits and items, the failing one and the *)
(* ones after it get no bit, the failing producer leaves logical size and   *)
(* existing bytes as they were; the same mask again skips what is attached  *)
(* and attaches only what is missing.                                       *)
C13_FailureAndRetry ==
    /\ (IsAppend /\ mcall.ret < 0)
           => (ItemsKept /\ \E k \in 1..Len(CategoryOrder) : FailedIn(k))
    /\ (IsAppend /\ mcall.rep /\ mcall.prev_ret < 0)
           => /\ ItemsKept
              /\ mcall.pre.attached \subseteq meta.attached
              /\ meta.attached \subseteq mcall.pre.attached \cup mcall.which
              /\ \A i \in AddedItems :
                     \E c \in mcall.which \ mcall.pre.attached :
                         meta.items[i].type \in CategoryItems(c)

-----------------------------------------------------------------------------
(* Endpoint lifecycle: kdbus_ep_new, kdbus_ep_activate, kdbus_ep_deactivate *)
(* with kdbus_ep_release as the node's release_cb, kdbus_ep_ref and         *)
(* kdbus_ep_unref with kdbus_ep_free as the node's free_cb. The node        *)
(* primitive and the connection's connect and disconnect are not part of    *)
(* endpoint.c; their steps follow the lifecycle the endpoint is specified   *)
(* to have.                                                                 *)

ESHUTDOWN == 108

(* bound on the references taken with kdbus_ep_ref at one time *)
MaxRefs == 1

(* kdbus_node_activate: a node is activated from its initial state only *)
kdbus_node_activate(n) ==
    [node |-> IF n.state = "Created" THEN [n EXCEPT !.state = "Active"] ELSE n,
     res |-> n.state = "Created"]

(* as kdbus_ep_activate, reporting success whatever the node answered *)
ep_activate_ret_zero(n) ==
    [node |-> kdbus_node_activate(n).node, ret |-> 0]

kdbus_ep_activate(n) ==
    [node |-> kdbus_node_activate(n).node,
     ret |-> IF ~kdbus_node_activate(n).res THEN -ESHUTDOWN ELSE 0]

(* kdbus_node_deactivate: the node is dead from now on; release_cb runs    *)
(* for the one call that made it so                                        *)
kdbus_node_deactivate(n) ==
    [node |-> IF n.state \in {"Created", "Active"}
              THEN [n EXCEPT !.state = "Deactivated"] ELSE n,
     release |-> n.state \in {"Created", "Active"}]

(* free_cb: BUG_ON(!list_empty(&ep->conn_list)) *)
kdbus_ep_free(n, list) ==
    [n EXCEPT !.state = "Freed", !.bug = list # <<>>]

(* kdbus_node_unref: the last reference frees the node *)
kdbus_node_unref(n, list) ==
    IF n.refs = 1
    THEN kdbus_ep_free([n EXCEPT !.refs = 0], list)
    ELSE [n EXCEPT !.refs = @ - 1]

(* list_first_entry_or_null(&ep->conn_list, ...) *)
list_first_entry_or_null(list) == IF list = <<>> THEN NULL ELSE Head(list)

(* list_del(&conn->ep_entry) *)
list_del(list, c) == SelectSeq(list, LAMBDA x : x # c)

(* as release_after_first, leaving the loop whatever the list holds *)
release_break_after_first(conn) == "break"

(* kdbus_ep_release after list_first_entry_or_null: leave the loop when    *)
(* the list is empty, go on with the connection otherwise                  *)
release_after_first(conn) == IF conn = NULL THEN "break" ELSE "ref"

(* as release_unlock, the endpoint lock kept over the disconnect *)
release_keep_lock(holder) == holder

(* mutex_unlock(&ep->lock) before kdbus_conn_disconnect *)
release_unlock(holder) == NULL

(* as release_after_unref, one connection disconnected and no more *)
release_once_after_unref(list) == "done"

(* for (;;): after kdbus_conn_unref the loop starts over *)
release_after_unref(list) == "lock"

(* kdbus_ep_new up to kdbus_node_init and the initialisation of the fields *)
InitLife ==
    /\ ep = kdbus_ep_new(FALSE)
    /\ bus_policy_db = {}
    /\ conns = [c \in Conn |->
                   kdbus_conn_new(CHOOSE cr \in ConnCreds[c] : TRUE, FALSE)]
    /\ call = NoCall
    /\ MetaIdle
    /\ LockIdle
    /\ node = [state |-> "Created", refs |-> 1, bug |-> FALSE]
    /\ conn_list = <<>>
    /\ ep_lock = NULL
    /\ lconn = [c \in Conn |-> ConnIdle]
    /\ rel = [pc |-> "idle", conn |-> NULL]
    /\ owner = [pc |-> "new"]
    /\ acall = NoCall

LifeFrame == UNCHANGED <<pvars, mvars, kvars>>

(* kdbus_ep_new returns the endpoint *)
EpNewReturn ==
    /\ owner.pc = "new"
    /\ owner' = [pc |-> "live"]
    /\ UNCHANGED <<node, conn_list, ep_lock, lconn, rel, acall>>
    /\ LifeFrame

(* kdbus_node_deactivate, from kdbus_ep_deactivate or from exit_unref of   *)
(* kdbus_ep_new when kdbus_node_link or kdbus_domain_get_user failed       *)
Deactivate(from) ==
    /\ owner.pc = from
    /\ node' = kdbus_node_deactivate(node).node
    /\ rel' = IF kdbus_node_deactivate(node).release
              THEN [pc |-> "lock", conn |-> NULL]
              ELSE rel
    /\ owner' = [pc |-> "deactivating"]
    /\ UNCHANGED <<conn_list, ep_lock, lconn, acall>>
    /\ LifeFrame

EpNewFail == Deactivate("new")

kdbus_ep_deactivate == Deactivate("live")

(* kdbus_node_deactivate returns when release_cb has *)
DeactivateReturn ==
    /\ owner.pc = "deactivating"
    /\ rel.pc = "done"
    /\ owner' = [pc |-> "deactivated"]
    /\ UNCHANGED <<node, conn_list, ep_lock, lconn, rel, acall>>
    /\ LifeFrame

(* kdbus_ep_activate, by any holder of a reference *)
Activate ==
    /\ owner.pc \notin {"idle", "new"}
    /\ node.refs > 0
    /\ node' = kdbus_ep_activate(node).node
    /\ acall' = [op |-> "activate", ret |-> kdbus_ep_activate(node).ret,
                 pre |-> node.state,
                 post |-> kdbus_ep_activate(node).node.state]
    /\ UNCHANGED <<conn_list, ep_lock, lconn, rel, owner>>
    /\ LifeFrame

(* kdbus_ep_ref by a holder of a reference *)
EpRef ==
    /\ owner.pc \in {"live", "deactivating", "deactivated"}
    /\ node.refs <= MaxRefs
    /\ node' = [node EXCEPT !.refs = @ + 1]
    /\ UNCHANGED <<conn_list, ep_lock, lconn, rel, owner, acall>>
    /\ LifeFrame

(* kdbus_ep_unref of a reference taken with kdbus_ep_ref *)
EpUnref ==
    /\ node.refs > (IF owner.pc = "gone" THEN 0 ELSE 1)
    /\ node' = kdbus_node_unref(node, conn_list)
    /\ UNCHANGED <<conn_list, ep_lock, lconn, rel, owner, acall>>
    /\ LifeFrame

(* kdbus_ep_unref of the creator's reference, after the deactivation *)
OwnerUnref ==
    /\ owner.pc = "deactivated"
    /\ node' = kdbus_node_unref(node, conn_list)
    /\ owner' = [pc |-> "gone"]
    /\ UNCHANGED <<conn_list, ep_lock, lconn, rel, acall>>
    /\ LifeFrame

(* kdbus_conn_disconnect, the steps of whoever runs it (who is "release"   *)
(* or the connection itself) from position pc on connection c: a           *)
(* connection already disconnected is left alone; otherwise it is marked   *)
(* and unlinked from ep->conn_list under ep->lock                          *)
DisconnectPcs == {"disconnect", "dc_lock", "dc_unlink", "dc_unlock"}

kdbus_conn_disconnect(who, pc, c) ==
    CASE pc = "disconnect" ->
           UNCHANGED <<conn_list, ep_lock>>
      [] pc = "dc_lock" ->
           /\ ep_lock = NULL
           /\ ep_lock' = who
           /\ UNCHANGED conn_list
      [] pc = "dc_unlink" ->
           /\ conn_list' = list_del(conn_list, c)
           /\ UNCHANGED ep_lock
      [] pc = "dc_unlock" ->
           /\ ep_lock' = NULL
           /\ UNCHANGED conn_list

(* the connection is marked disconnected at the start of the call *)
disconnect_mark(pc, c, l) ==
    IF pc = "disconnect" THEN [l EXCEPT ![c].active = FALSE] ELSE l

disconnect_next(pc, c) ==
    CASE pc = "disconnect" -> IF lconn[c].active THEN "dc_lock" ELSE "unref"
      [] pc = "dc_lock" -> "dc_unlink"
      [] pc = "dc_unlink" -> "dc_unlock"
      [] pc = "dc_unlock" -> "unref"

(* kdbus_conn_unref: the last reference frees the connection *)
kdbus_conn_unref(l, c) == [l EXCEPT ![c].refs = @ - 1]

(* kdbus_ep_release, one step of the loop *)
kdbus_ep_release ==
    /\ rel.pc \notin {"idle", "done"}
    /\ CASE rel.pc = "lock" ->
              /\ ep_lock = NULL
              /\ ep_lock' = "release"
              /\ rel' = [rel EXCEPT !.pc = "first"]
              /\ UNCHANGED <<conn_list, lconn>>
         [] rel.pc = "first" ->
              /\ rel' = [pc |-> release_after_first(
                                    list_first_entry_or_null(conn_list)),
                         conn |-> list_first_entry_or_null(conn_list)]
              /\ UNCHANGED <<conn_list, ep_lock, lconn>>
         [] rel.pc = "break" ->
              /\ ep_lock' = NULL
              /\ rel' = [pc |-> "done", conn |-> NULL]
              /\ UNCHANGED <<conn_list, lconn>>
         [] rel.pc = "ref" ->
              /\ lconn' = [lconn EXCEPT ![rel.conn].refs = @ + 1]
              /\ rel' = [rel EXCEPT !.pc = "unlock"]
              /\ UNCHANGED <<conn_list, ep_lock>>
         [] rel.pc = "unlock" ->
              /\ ep_lock' = release_unlock(ep_lock)
              /\ rel' = [rel EXCEPT !.pc = "disconnect"]
              /\ UNCHANGED <<conn_list, lconn>>
         [] rel.pc \in DisconnectPcs ->
              /\ kdbus_conn_disconnect("release", rel.pc, rel.conn)
              /\ lconn' = disconnect_mark(rel.pc, rel.conn, lconn)
              /\ rel' = [rel EXCEPT !.pc = disconnect_next(rel.pc, rel.conn)]
         [] rel.pc = "unref" ->
              /\ lconn' = kdbus_conn_unref(lconn, rel.conn)
              /\ rel' = [pc |-> release_after_unref(conn_list), conn |-> NULL]
              /\ UNCHANGED <<conn_list, ep_lock>>
    /\ UNCHANGED <<node, owner, acall>>
    /\ LifeFrame

(* a connection is linked to an active endpoint *)
kdbus_conn_connect(c) ==
    /\ node.state = "Active"
    /\ lconn[c] = ConnIdle
    /\ ep_lock = NULL
    /\ conn_list' = Append(conn_list, c)
    /\ lconn' = [lconn EXCEPT ![c] = [active |-> TRUE, refs |-> 1,
                                      pc |-> "connected"]]
    /\ UNCHANGED <<node, ep_lock, rel, owner, acall>>
    /\ LifeFrame

(* the connection starts to disconnect itself *)
ConnClose(c) ==
    /\ lconn[c].pc = "connected"
    /\ lconn' = [lconn EXCEPT ![c].pc = "disconnect"]
    /\ UNCHANGED <<node, conn_list, ep_lock, rel, owner, acall>>
    /\ LifeFrame

(* the connection's own disconnect path, and the release of its reference *)
ConnDisconnect(c) ==
    /\ lconn[c].pc \in DisconnectPcs \cup {"unref"}
    /\ CASE lconn[c].pc \in DisconnectPcs ->
              /\ kdbus_conn_disconnect(c, lconn[c].pc, c)
              /\ lconn' = [disconnect_mark(lconn[c].pc, c, lconn)
                               EXCEPT ![c].pc = disconnect_next(lconn[c].pc, c)]
         [] lconn[c].pc = "unref" ->
              /\ lconn' = [kdbus_conn_unref(lconn, c) EXCEPT ![c].pc = "done"]
              /\ UNCHANGED <<conn_list, ep_lock>>
    /\ UNCHANGED <<node, rel, owner, acall>>
    /\ LifeFrame

NextLife ==
    \/ EpNewReturn
    \/ EpNewFail
    \/ kdbus_ep_deactivate
    \/ DeactivateReturn
    \/ Activate
    \/ EpRef
    \/ EpUnref
    \/ OwnerUnref
    \/ kdbus_ep_release
    \/ \E c \in Conn : kdbus_conn_connect(c)
    \/ \E c \in Conn : ConnClose(c)
    \/ \E c \in Conn : ConnDisconnect(c)

SpecLife == InitLife /\ [][NextLife]_vars

(* kdbus_ep_release is not interruptible and runs on; a thread that waits   *)
(* for ep->lock gets it in the end although the release takes the lock      *)
(* again and again, the mutex waking its waiters                            *)
SpecLifeFair ==
    /\ SpecLife
    /\ WF_vars(kdbus_ep_release)
    /\ \A c \in Conn : SF_vars(ConnDisconnect(c))

-----------------------------------------------------------------------------
IsActivate == acall.op = "activate"

LifecycleChain == {<<"Created", "Active">>, <<"Active", "Deactivated">>,
                   <<"Deactivated", "Freed">>}

(* C14, as stated: the endpoint's state only moves Created -> Active ->     *)
(* Deactivated -> Freed, one step of the chain at a time.                   *)
C14_ChainOnlyAsStated ==
    [][node'.state # node.state
           => <<node.state, node'.state>> \in LifecycleChain]_vars

(* C14, amended: the state only moves forward along Created -> Active ->    *)
(* Deactivated -> Freed, where an endpoint deactivated before it was        *)
(* activated goes from Created to Deactivated; kdbus_ep_activate returns 0  *)
(* only on a Created endpoint, which it makes Active, and otherwise returns *)
(* -ESHUTDOWN and leaves the state as it is, so that no endpoint is Active  *)
(* again after its first activation ended.                                  *)
C14_ActivateOnce ==
    /\ [][node'.state # node.state
              => <<node.state, node'.state>>
                     \in LifecycleChain \cup {<<"Created", "Deactivated">>}]_vars
    /\ [](IsActivate =>
              /\ acall.ret \in {0, -ESHUTDOWN}
              /\ acall.ret = 0 <=> acall.pre = "Created"
              /\ acall.ret = 0 => acall.post = "Active"
              /\ acall.ret = -ESHUTDOWN => acall.post = acall.pre)

(* an endpoint that had a connection, was deactivated and freed, and whose  *)
(* last kdbus_ep_activate came after the deactivation and failed            *)
C14_Witness ==
    /\ node.state = "Freed"
    /\ lconn["A"].pc # "idle"
    /\ IsActivate /\ acall.ret = -ESHUTDOWN /\ acall.pre = "Deactivated"

-----------------------------------------------------------------------------
(* the steps of the threads that take ep->lock *)
LifeThreads == kdbus_ep_release \/ \E c \in Conn : ConnDisconnect(c)

LifeThreadsBusy ==
    \/ rel.pc \notin {"idle", "done"}
    \/ \E c \in Conn : lconn[c].pc \in DisconnectPcs \cup {"unref"}

(* C15: kdbus_ep_release picks a connection and takes its reference under   *)
(* ep->lock, and has given the lock back when it calls                      *)
(* kdbus_conn_disconnect; the connection is referenced from the pick to the *)
(* kdbus_conn_unref; and as long as the release or a connection's own       *)
(* disconnect is under way, one of them can take a step: they never wait    *)
(* for each other.                                                          *)
C15_DrainOutsideLock ==
    /\ rel.pc \in {"first", "break", "ref", "unlock"} => ep_lock = "release"
    /\ rel.pc \in {"disconnect", "dc_lock", "unref"} => ep_lock # "release"
    /\ rel.pc \in DisconnectPcs \cup {"unlock", "unref"}
           => lconn[rel.conn].refs >= 1
    /\ LifeThreadsBusy => ENABLED LifeThreads

(* kdbus_ep_release waits in kdbus_conn_disconnect for ep->lock while the   *)
(* other connection, in its own disconnect path, holds it                   *)
C15_Witness ==
    /\ rel.pc = "dc_lock"
    /\ ep_lock \in Conn /\ ep_lock # rel.conn
    /\ lconn[ep_lock].pc = "dc_unlink"

-----------------------------------------------------------------------------
DrainStarted == rel.pc \notin {"idle", "done"}

DrainDone == rel.pc = "done"

(* C16: once kdbus_ep_release has started, it returns; when it has          *)
(* returned, ep->conn_list is empty and every connection that was linked is *)
(* disconnected, also when connections disconnect themselves meanwhile.     *)
C16_DrainTerminates ==
    /\ [](DrainDone => /\ conn_list = <<>>
                       /\ \A c \in Conn : lconn[c].pc # "idle" => ~lconn[c].active)
    /\ (DrainStarted ~> DrainDone)

(* the release has returned; one connection had disconnected itself, the   *)
(* other one was disconnected by the release alone                         *)
C16_Witness ==
    /\ DrainDone
    /\ conn_list = <<>>
    /\ \E c \in Conn : lconn[c].pc = "done"
    /\ \E c \in Conn : lconn[c].pc = "connected" /\ ~lconn[c].active

-----------------------------------------------------------------------------
(* C17: when kdbus_ep_free has run, ep->conn_list was empty: BUG_ON did not *)
(* fire, on the failure path of kdbus_ep_new as on an endpoint that was     *)
(* activated, had connections linked, was deactivated and lost its last     *)
(* reference.                                                               *)
C17_FreeFindsListEmpty ==
    node.state = "Freed" => (~node.bug /\ conn_list = <<>> /\ node.refs = 0)

(* an endpoint freed after both connections had been linked to it *)
C17_Witness ==
    /\ node.state = "Freed"
    /\ \A c \in Conn : lconn[c].pc # "idle"
    /\ owner.pc = "gone"

-----------------------------------------------------------------------------
(* The locks of the policy operations: ep->policy_db.entries_rwlock, read   *)
(* by the checks and written by kdbus_ep_policy_set, and conn->lock. Each   *)
(* operation is a list of locks to take, the check, and a list of locks to  *)
(* give back. A writer that waits keeps new readers out.                    *)

(* as see_access_locks, conn->lock taken before the read lock *)
see_access_locks_conn_first(conn) ==
    [lock |-> <<conn, "rwlock">>, unlock |-> <<conn, "rwlock">>]

(* kdbus_ep_policy_check_see_access: down_read, mutex_lock(&conn->lock),    *)
(* the check, mutex_unlock(&conn->lock), up_read                            *)
see_access_locks(conn) ==
    [lock |-> <<"rwlock", conn>>, unlock |-> <<conn, "rwlock">>]

(* kdbus_ep_policy_check_src_names on a custom endpoint: down_read,         *)
(* mutex_lock(&conn_src->lock), the loop, mutex_unlock, up_read             *)
src_names_locks(conn_src) ==
    [lock |-> <<"rwlock", conn_src>>, unlock |-> <<conn_src, "rwlock">>]

no_locks == [lock |-> <<>>, unlock |-> <<>>]

(* kdbus_policy_set: the database is written under the exclusive lock *)
policy_set_locks == [lock |-> <<"rwlock_w">>, unlock |-> <<"rwlock_w">>]

(* the operations a thread runs *)
LockOps ==
    [kind : {"see"}, conn : Conn, name : {"org.foo"}]
        \cup [kind : {"notification"}, conn : {"B"},
              kmsg : [src_id : SrcIds,
                      notify_type : {"KDBUS_ITEM_NAME_ADD", "KDBUS_ITEM_ID_ADD"},
                      notify_name : {"org.foo"}]]
        \cup [kind : {"src_names"}, src : Conn, dst : Conn]

(* the locks an operation takes on endpoint e, from its code *)
LockPlan(e, op) ==
    CASE op.kind = "see" -> see_access_locks(op.conn)
      [] op.kind = "notification" ->
             IF /\ e.has_policy
                /\ op.kmsg.src_id = KDBUS_SRC_ID_KERNEL
                /\ op.kmsg.notify_type \in NameChangeTypes
             THEN see_access_locks(op.conn)
             ELSE no_locks
      [] op.kind = "src_names" ->
             IF e.has_policy THEN src_names_locks(op.src) ELSE no_locks
      [] op.kind = "set" -> policy_set_locks

(* what the operation computes once it holds its locks *)
LockedCheck(e, op) ==
    CASE op.kind = "see" ->
             kdbus_ep_policy_check_see_access_unlocked(e, conns[op.conn], op.name)
      [] op.kind = "notification" ->
             kdbus_ep_policy_check_notification(e, conns[op.conn], op.kmsg)
      [] op.kind = "src_names" ->
             kdbus_ep_policy_check_src_names(e, conns[op.src], conns[op.dst])
      [] op.kind = "set" -> 0

Readers == {"t1", "t2"}

Writers == Threads \ Readers

InitLocks ==
    /\ \E is_custom \in BOOLEAN : ep = kdbus_ep_new(is_custom)
    /\ bus_policy_db = {}
    /\ conns = [c \in Conn |->
                   [kdbus_conn_new(CHOOSE cr \in ConnCreds[c] : TRUE, FALSE)
                        EXCEPT !.names_list = IF c = "A" THEN <<"org.foo">>
                                                          ELSE <<>>]]
    /\ call = NoCall
    /\ MetaIdle
    /\ LifeIdle
    /\ LockIdle

LockFrame == UNCHANGED <<bus_policy_db, conns, call, mvars, lvars>>

(* a thread enters an operation; down_write puts the writer in the queue *)
Begin(t, op) ==
    /\ thr[t].pc = "idle"
    /\ thr' = [thr EXCEPT ![t] = [pc |-> "lock", op |-> op,
                                  todo |-> LockPlan(ep, op).lock,
                                  undo |-> LockPlan(ep, op).unlock,
                                  held |-> <<>>, ret |-> 0]]
    /\ rwlock' = IF op.kind = "set"
                 THEN [rwlock EXCEPT !.waiting = @ \cup {t}]
                 ELSE rwlock
    /\ UNCHANGED <<ep, conn_lock>>
    /\ LockFrame

(* down_read, down_write, mutex_lock: the next lock of the operation *)
Acquire(t) ==
    /\ thr[t].pc = "lock"
    /\ thr[t].todo # <<>>
    /\ LET l == Head(thr[t].todo)
       IN  /\ CASE l = "rwlock" ->
                     /\ rwlock.writer = NULL
                     /\ rwlock.waiting = {}
                     /\ rwlock' = [rwlock EXCEPT !.readers = @ \cup {t}]
                     /\ UNCHANGED conn_lock
                [] l = "rwlock_w" ->
                     /\ rwlock.writer = NULL
                     /\ rwlock.readers = {}
                     /\ rwlock' = [rwlock EXCEPT !.writer = t,
                                                 !.waiting = @ \ {t}]
                     /\ UNCHANGED conn_lock
                [] OTHER ->
                     /\ conn_lock[l] = NULL
                     /\ conn_lock' = [conn_lock EXCEPT ![l] = t]
                     /\ UNCHANGED rwlock
           /\ thr' = [thr EXCEPT ![t].todo = Tail(@),
                                 ![t].held = Append(@, l)]
    /\ UNCHANGED ep
    /\ LockFrame

(* the body of the operation, all its locks held *)
Locked(t) ==
    /\ thr[t].pc = "lock"
    /\ thr[t].todo = <<>>
    /\ IF thr[t].op.kind = "set"
       THEN \E rule \in EpRules :
               ep' = IF Cardinality(ep.policy_db) < MaxEntries
                     THEN [ep EXCEPT !.policy_db = @ \cup {rule}]
                     ELSE ep
       ELSE UNCHANGED ep
    /\ thr' = [thr EXCEPT ![t].pc = "unlock",
                          ![t].ret = LockedCheck(ep, thr[t].op)]
    /\ UNCHANGED <<rwlock, conn_lock>>
    /\ LockFrame

(* mutex_unlock, up_read, up_write: the next lock the operation gives back *)
Release(t) ==
    /\ thr[t].pc = "unlock"
    /\ thr[t].undo # <<>>
    /\ LET l == Head(thr[t].undo)
       IN  /\ CASE l = "rwlock" ->
                     /\ rwlock' = [rwlock EXCEPT !.readers = @ \ {t}]
                     /\ UNCHANGED conn_lock
                [] l = "rwlock_w" ->
                     /\ rwlock' = [rwlock EXCEPT !.writer = NULL]
                     /\ UNCHANGED conn_lock
                [] OTHER ->
                     /\ conn_lock' = [conn_lock EXCEPT ![l] = NULL]
                     /\ UNCHANGED rwlock
           /\ thr' = [thr EXCEPT ![t].undo = Tail(@),
                                 ![t].held = SelectSeq(@, LAMBDA x : x # l)]
    /\ UNCHANGED ep
    /\ LockFrame

(* the operation returns ret *)
Finish(t) ==
    /\ thr[t].pc = "unlock"
    /\ thr[t].undo = <<>>
    /\ thr' = [thr EXCEPT ![t] = ThreadIdle]
    /\ UNCHANGED <<ep, rwlock, conn_lock>>
    /\ LockFrame

ThreadSteps == \E t \in Threads : Acquire(t) \/ Locked(t) \/ Release(t) \/ Finish(t)

NextLocks ==
    \/ \E t \in Readers, op \in LockOps : Begin(t, op)
    \/ \E t \in Writers : Begin(t, [kind |-> "set"])
    \/ \E t \in Threads : Acquire(t)
    \/ \E t \in Threads : Locked(t)
    \/ \E t \in Threads : Release(t)
    \/ \E t \in Threads : Finish(t)

SpecLocks == InitLocks /\ [][NextLocks]_vars

-----------------------------------------------------------------------------
HoldsConnLock(t) == \E i \in 1..Len(thr[t].held) : thr[t].held[i] \in Conn

WantsPolicyLock(t) ==
    /\ thr[t].pc = "lock"
    /\ thr[t].todo # <<>>
    /\ Head(thr[t].todo) \in {"rwlock", "rwlock_w"}

LockThreadsBusy == \E t \in Threads : thr[t].pc # "idle"

(* C18: a thread that holds a connection lock holds the policy database's   *)
(* read lock and took it first, so that it gives it back after the          *)
(* connection lock; no thread asks for the policy database lock while it    *)
(* holds a connection lock; and with two checks and a writer under way,     *)
(* some thread can always go on: there is no cycle of threads that wait for *)
(* each other.                                                              *)
C18_LockOrder ==
    /\ \A t \in Threads :
           /\ HoldsConnLock(t) => thr[t].held[1] = "rwlock"
           /\ WantsPolicyLock(t) => ~HoldsConnLock(t)
    /\ LockThreadsBusy => ENABLED ThreadSteps

(* one check holds the read lock and conn A's lock, the other holds the     *)
(* read lock and waits for conn A's lock, and the writer waits              *)
C18_Witness ==
    /\ thr["t1"].held = <<"rwlock", "A">>
    /\ thr["t2"].held = <<"rwlock">>
    /\ thr["t2"].pc = "lock" /\ thr["t2"].todo = <<"A">>
    /\ rwlock.waiting # {}


-----------------------------------------------------------------------------
(* C19: a snapshot is append-only. Every call of kdbus_meta_append leaves   *)
(* each bit of attached that was set before it set, leaves size no smaller, *)
(* sets no bit outside the categories it was asked for, and leaves every    *)
(* item written before it as it was, at its offset, also when the call      *)
(* moved the items into a larger buffer. As each step is one call, the      *)
(* same holds across any sequence of calls.                                 *)
C19_AppendOnly ==
    IsAppend =>
        /\ mcall.pre.attached \subseteq meta.attached
        /\ meta.size >= mcall.pre.size
        /\ meta.attached \subseteq mcall.pre.attached \cup mcall.which
        /\ ItemsKept

(* a call that found items in the snapshot, moved them into a larger buffer *)
(* and added an item and a category                                         *)
C19_Witness ==
    /\ IsAppend
    /\ mcall.pre.items # <<>>
    /\ mcall.pre.allocated_size > 0
    /\ meta.allocated_size > mcall.pre.allocated_size
    /\ AddedItems # {}
    /\ meta.attached # mcall.pre.attached


-----------------------------------------------------------------------------
(* the last call had to produce category cat *)
Requested(cat) ==
    \E k \in ToProduce : CategoryOrder[k] = cat

(* the last call had to produce category cat and there was nothing to       *)
(* write for it: the connection owns no name, the task has no executable    *)
(* or d_path() cannot name it, the security module does not support labels  *)
Skipped(cat) ==
    /\ IsAppend /\ mcall.conn # NULL
    /\ Requested(cat)
    /\ CASE cat = "NAMES" -> conns[mcall.conn].names_list = <<>>
         [] cat = "EXE" -> ~current.exe_path \/ current.d_path_err
         [] cat = "SECLABEL" -> current.secctx_ret = -EOPNOTSUPP
         [] OTHER -> FALSE

(* what else can make the last call return something other than 0: an      *)
(* allocation, the arguments not copied in full, task_cgroup_path(), a      *)
(* security module that fails                                               *)
OtherCauses ==
    {-ENOMEM}
    \cup (IF Requested("CMDLINE") /\ current.arg_end /\ current.uncopied # 0
          THEN {Min(current.uncopied, Min(current.arg_len, PAGE_SIZE))}
          ELSE {})
    \cup (IF Requested("CGROUP") /\ current.cgroup_ret < 0
          THEN {current.cgroup_ret} ELSE {})
    \cup (IF Requested("SECLABEL") /\ current.secctx_ret < 0
                                   /\ current.secctx_ret # -EOPNOTSUPP
          THEN {current.secctx_ret} ELSE {})

(* C20: a requested category with nothing to write (no security labels     *)
(* supported, no names owned, no resolvable executable path) is skipped and *)
(* is no error: the call adds no item of that category, returns 0 unless    *)
(* something else than the skip makes it return otherwise, and, when it     *)
(* does not fail, has gone through every requested category.               *)
C20_SkipIsNoError ==
    \A cat \in {"NAMES", "EXE", "SECLABEL"} :
        Skipped(cat) =>
            /\ \A i \in AddedItems : meta.items[i].type \notin CategoryItems(cat)
            /\ mcall.ret # 0 => mcall.ret \in OtherCauses
            /\ mcall.ret >= 0 =>
                   \A k \in ToProduce : CategoryOrder[k] \in meta.attached

(* a call for every category on a task with no names, no executable and no *)
(* security labels: it returns 0 and has written the items of the          *)
(* categories after the skipped ones                                       *)
C20_Witness ==
    /\ Skipped("NAMES") /\ Skipped("EXE") /\ Skipped("SECLABEL")
    /\ mcall.ret = 0
    /\ \E i \in AddedItems : meta.items[i].type = "KDBUS_ITEM_PID_COMM"
    /\ \E i \in AddedItems : meta.items[i].type = "KDBUS_ITEM_CAPS"
    /\ \E i \in AddedItems : meta.items[i].type = "KDBUS_ITEM_AUDIT"


-----------------------------------------------------------------------------
(* the position of category cat in the order of kdbus_meta_append *)
OrderOf(cat) == CHOOSE k \in 1..Len(CategoryOrder) : CategoryOrder[k] = cat

(* the last call had to produce CMDLINE for a task whose arguments           *)
(* copy_from_user() does not copy in full                                    *)
TruncatedRead ==
    /\ IsAppend /\ mcall.conn # NULL
    /\ Requested("CMDLINE")
    /\ current.arg_end /\ current.uncopied # 0

(* C21: a call whose read of the caller's command line is truncated aborts  *)
(* with no partial effect: it writes no CMDLINE item, leaves the CMDLINE    *)
(* bit unset, does not go on to the categories after CMDLINE, and returns a *)
(* negative error code.                                                     *)
C21_TruncatedReadAborts ==
    TruncatedRead =>
        /\ \A i \in AddedItems : meta.items[i].type # "KDBUS_ITEM_CMDLINE"
        /\ "CMDLINE" \notin meta.attached
        /\ \A k \in ToProduce :
               k > OrderOf("CMDLINE") =>
                   /\ CategoryOrder[k] \notin meta.attached
                   /\ \A i \in AddedItems :
                          meta.items[i].type \notin CategoryItems(CategoryOrder[k])
        /\ mcall.ret < 0


-----------------------------------------------------------------------------
(* n is a power of two *)
RECURSIVE IsPowerOfTwo(_)
IsPowerOfTwo(n) ==
    IF n <= 1 THEN n = 1
    ELSE n % 2 = 0 /\ IsPowerOfTwo(n \div 2)

(* the capacity the stated growth rule gives a buffer that holds the first *)
(* i of the given items: the first allocation for item 1, then a           *)
(* reallocation for each item whose end exceeds the capacity before it     *)
RECURSIVE CapacityFor(_, _)
CapacityFor(items, i) ==
    IF i = 0 THEN 0
    ELSE IF i = 1
    THEN roundup_pow_of_two(MinAlloc + KDBUS_ALIGN8(items[1].size))
    ELSE the({ IF items[i].off + KDBUS_ALIGN8(items[i].size) > before
               THEN roundup_pow_of_two(items[i].off + KDBUS_ALIGN8(items[i].size))
               ELSE before
               : before \in {CapacityFor(items, i - 1)} })

(* C22: the buffer is unallocated until the first item is appended; its     *)
(* capacity is the one the growth rule gives (roundup_pow_of_two(256 +      *)
(* aligned first item size), then the next power of two of the required     *)
(* size whenever an item does not fit); so capacity is a power of two,      *)
(* logical size is at most capacity, and a call that reallocates at least   *)
(* doubles the capacity.                                                    *)
C22_BufferGrowth ==
    /\ (meta.data = NULL) <=> (meta.items = <<>>)
    /\ meta.data = NULL => meta.allocated_size = 0 /\ meta.size = 0
    /\ meta.allocated_size = CapacityFor(meta.items, Len(meta.items))
    /\ meta.data # NULL => IsPowerOfTwo(meta.allocated_size)
    /\ meta.size <= meta.allocated_size
    /\ (IsAppend /\ mcall.pre.data # NULL
                 /\ meta.allocated_size # mcall.pre.allocated_size)
           => meta.allocated_size >= 2 * mcall.pre.allocated_size

(* a call that found a buffer of the first allocation's capacity too small *)
(* for its items and left one at least four times as large                 *)
C22_Witness ==
    /\ IsAppend /\ mcall.ret = 0
    /\ mcall.pre.data # NULL
    /\ mcall.pre.allocated_size = roundup_pow_of_two(
           MinAlloc + KDBUS_ALIGN8(meta.items[1].size))
    /\ meta.allocated_size >= 4 * mcall.pre.allocated_size
    /\ meta.size > 2 * mcall.pre.allocated_size


-----------------------------------------------------------------------------
(* C23: no byte of the buffer is uninitialised: the padding after each     *)
(* payload is zero, and so is every byte from the logical size to the      *)
(* capacity, also after the buffer was reallocated.                        *)
C23_NoUninitialisedBytes ==
    /\ \A i \in 1..Len(meta.items) : meta.items[i].pad # "uninitialised"
    /\ meta.dirty_to <= meta.size

(* a call that reallocated a buffer whose last bytes were not in use: the  *)
(* item it added starts in the bytes that were neither copied nor cleared, *)
(* ends beyond the old capacity, and has padding after its payload         *)
C23_Witness ==
    /\ IsAppend
    /\ mcall.pre.data # NULL
    /\ mcall.pre.size < mcall.pre.allocated_size
    /\ meta.allocated_size > mcall.pre.allocated_size
    /\ \E i \in AddedItems :
           /\ meta.items[i].off < mcall.pre.allocated_size
           /\ meta.items[i].off + KDBUS_ALIGN8(meta.items[i].size)
                  > mcall.pre.allocated_size
           /\ meta.items[i].pad = "zero"


-----------------------------------------------------------------------------
ItemTypes == UNION {CategoryItems(cat) : cat \in Categories}

(* C24: the blob never holds two items of one type, and holds an item of a *)
(* category only when the bit of that category is set, also after calls    *)
(* that failed part-way and were made again, and also for COMM, which      *)
(* writes two items before its bit is set.                                 *)
C24_NoDuplicateRecords ==
    /\ \A t \in ItemTypes : Cardinality(ItemsOfType(meta, t)) <= 1
    /\ \A cat \in Categories :
           (\E t \in CategoryItems(cat) : ItemsOfType(meta, t) # {})
               => cat \in meta.attached

=============================================================================
